---- MODULE Spec2Model ----
(***************************************************************************)
(* Model of the FitDrip feed builder, tools/feed_build.py: the title       *)
(* normalizers rename_ua / rename_ru with the regular expressions they     *)
(* use, the taxonomy injector apply_categories, the category assigner      *)
(* apply_category_ids, and the driver build / main.                        *)
(*                                                                         *)
(* Text is a sequence of Unicode code points (a Python str).  The model's  *)
(* alphabet is Basic Latin, U+00A0, the Cyrillic letters U+0400..U+045F,   *)
(* U+0490, U+0491 and the dashes U+2013, U+2014; the character classes     *)
(* below are those of Python's re and str on that alphabet.                *)
(***************************************************************************)
EXTENDS Integers, Sequences, FiniteSets, TLC

VARIABLES
    \* ---- the driver (main / build) ----
    pc,         \* position of main / build
    lang,       \* language of the current build() call
    feed,       \* per language, the document fetch_xml returned to build(lang)
    categories_def, \* tools/categories.json
    category_map,   \* tools/category_map.json, its "map" object
    tree,       \* the in-memory document of the current build() call
    idx,        \* position of the rename loop in offers_node.findall("offer")
    files,      \* content of OUT_UA / OUT_RU
    prev,       \* content of OUT_UA / OUT_RU when main started
    err,        \* the exception that ended main, "" when none
    \* ---- the title normalizers, applied to drawn inputs ----
    rname, rdesc, rvendor,  \* the arguments (name, desc, vendor)
    rop,                    \* "none", "ua", "ru", "ua2": what has been applied
    rout,                   \* the result of the first application
    rout2                   \* the result of rename_ua applied to rout

drv  == <<pc, lang, feed, categories_def, category_map, tree, idx, files, prev, err>>
ren  == <<rname, rdesc, rvendor, rop, rout, rout2>>
vars == <<pc, lang, feed, categories_def, category_map, tree, idx, files, prev, err,
          rname, rdesc, rvendor, rop, rout, rout2>>

(***************************************************************************)
(* Characters and strings (Python str, re with Unicode semantics)          *)
(***************************************************************************)
SP     == 32      \* " "
EMDASH == 8212    \* U+2014
COLON  == 58      \* ":"

\* str.isspace / re \s
IsSpace(c) == c \in ((9..13) \cup (28..32) \cup {133, 160})

\* re \d
IsDigit(c) == c \in 48..57

\* re \w : alphanumeric or underscore
IsWord(c) ==
    c \in ((48..57) \cup (65..90) \cup (97..122) \cup {95}
           \cup (1024..1119) \cup {1168, 1169})

\* str.lower on one character
LowerChar(c) ==
    IF c \in 65..90 THEN c + 32
    ELSE IF c \in 1024..1039 THEN c + 80
    ELSE IF c \in 1040..1071 THEN c + 32
    ELSE IF c = 1168 THEN 1169
    ELSE c

\* str.lower
lower(s) == [i \in 1..Len(s) |-> LowerChar(s[i])]

Min(S) == CHOOSE i \in S : \A j \in S : i <= j
Max(S) == CHOOSE i \in S : \A j \in S : i >= j

\* str.strip(chars): drop leading and trailing characters of the set
StripSet(s, cs) ==
    LET keep == {i \in 1..Len(s) : s[i] \notin cs}
    IN  IF keep = {} THEN <<>>
        ELSE SubSeq(s, Min(keep), Max(keep))

\* str.strip()
strip(s) ==
    LET keep == {i \in 1..Len(s) : ~IsSpace(s[i])}
    IN  IF keep = {} THEN <<>>
        ELSE SubSeq(s, Min(keep), Max(keep))

\* p occurs in s at position i, case-sensitively
MatchAt(s, i, p) ==
    /\ i >= 1
    /\ i + Len(p) - 1 <= Len(s)
    /\ \A t \in 1..Len(p) : s[i + t - 1] = p[t]

\* p occurs in s at position i under re.I
MatchAtI(s, i, p) ==
    /\ i >= 1
    /\ i + Len(p) - 1 <= Len(s)
    /\ \A t \in 1..Len(p) : LowerChar(s[i + t - 1]) = LowerChar(p[t])

\* Python's "p in s"
Contains(s, p) == \E i \in 1..(Len(s) - Len(p) + 1) : MatchAt(s, i, p)

\* re \b just before position i (i in 1..Len(s)+1)
WordBoundary(s, i) ==
    LET before == i > 1 /\ i - 1 <= Len(s) /\ IsWord(s[i - 1])
        after  == i <= Len(s) /\ IsWord(s[i])
    IN  before # after

\* the end (exclusive) of the run of indices of ok that starts at i
RunEnd(s, i, ok) ==
    LET stops == {j \in i..Len(s) : j \notin ok}
    IN  IF stops = {} THEN Len(s) + 1
        ELSE Min(stops)

SpaceIdx(s) == {i \in 1..Len(s) : IsSpace(s[i])}
DigitIdx(s) == {i \in 1..Len(s) : IsDigit(s[i])}

\* the concatenation of a sequence of strings with sep between them
RECURSIVE Join(_, _)
Join(parts, sep) ==
    IF parts = <<>> THEN <<>>
    ELSE IF Len(parts) = 1 THEN parts[1]
    ELSE parts[1] \o sep \o Join(Tail(parts), sep)

\* str.split(): the maximal runs of non-whitespace, in order
RECURSIVE SplitFrom(_, _)
SplitFrom(s, i) ==
    IF i > Len(s) THEN <<>>
    ELSE IF IsSpace(s[i]) THEN SplitFrom(s, i + 1)
    ELSE LET e == RunEnd(s, i, (1..Len(s)) \ SpaceIdx(s))
         IN  <<SubSeq(s, i, e - 1)>> \o SplitFrom(s, e)

split(s) == SplitFrom(s, 1)

\* seq[:n]
Take(seq, n) == SubSeq(seq, 1, IF Len(seq) < n THEN Len(seq) ELSE n)

(***************************************************************************)
(* clean_desc, extract_purpose, normalize_base_name                        *)
(***************************************************************************)
\* re.sub(r"\s+", " ", t): every maximal whitespace run becomes one space
RECURSIVE CollapseWs(_, _)
CollapseWs(s, i) ==
    LET hits == {j \in i..Len(s) : IsSpace(s[j])}
    IN  IF hits = {} THEN SubSeq(s, i, Len(s))
        ELSE SubSeq(s, i, Min(hits) - 1) \o <<SP>>
             \o CollapseWs(s, RunEnd(s, Min(hits), SpaceIdx(s)))

\* re.sub(r"\s{2,}", " ", n): a whitespace run of two or more becomes one space
RECURSIVE CollapseWs2(_, _)
CollapseWs2(s, i) ==
    LET hits == {j \in i..(Len(s) - 1) : IsSpace(s[j]) /\ IsSpace(s[j + 1])}
    IN  IF hits = {} THEN SubSeq(s, i, Len(s))
        ELSE SubSeq(s, i, Min(hits) - 1) \o <<SP>>
             \o CollapseWs2(s, RunEnd(s, Min(hits), SpaceIdx(s)))

\* (Штрихкод|Артикул|SKU|Код|Виробник|Производитель), in the pattern's order
DESC_LABELS ==
    << <<1064, 1090, 1088, 1080, 1093, 1082, 1086, 1076>> (* "Штрихкод" *),
       <<1040, 1088, 1090, 1080, 1082, 1091, 1083>> (* "Артикул" *),
       <<83, 75, 85>> (* "SKU" *),
       <<1050, 1086, 1076>> (* "Код" *),
       <<1042, 1080, 1088, 1086, 1073, 1085, 1080, 1082>> (* "Виробник" *),
       <<1055, 1088, 1086, 1080, 1079, 1074, 1086, 1076, 1080, 1090, 1077, 1083, 1100>> (* "Производитель" *) >>

\* the pattern (Штрихкод|...|Производитель)\b matches at position i
DescLabelAt(s, i) ==
    \E k \in 1..Len(DESC_LABELS) :
        /\ MatchAt(s, i, DESC_LABELS[k])
        /\ WordBoundary(s, i + Len(DESC_LABELS[k]))

\* re.split(pattern, t, maxsplit=1)[0]: the text before the leftmost match
BeforeDescLabel(s) ==
    LET hits == {i \in 1..Len(s) : DescLabelAt(s, i)}
    IN  IF hits = {} THEN s
        ELSE SubSeq(s, 1, Min(hits) - 1)

clean_desc(text) ==
    IF text = <<>> THEN <<>>
    ELSE strip(BeforeDescLabel(strip(CollapseWs(text, 1))))

PurposeMin == 10
PurposeMax == 90
SentenceEnd == {46, 33, 63}                    \* . ! ?
PurposeTrim == {32, 45, 8211, 8212, 58, 59, 44, 46}   \* " -–—:;,."
FOR_WORD == <<1076, 1083, 1103>> (* "для" *)
FallbackWords == 8

\* re.search(r"(для\s+[^\.\!\?]{10,90})", d, flags=re.I): <<start, end>> of the
\* leftmost match (end exclusive), <<0, 0>> when there is none.  At a start
\* position \s+ is greedy and gives whitespace back to the character class,
\* which also accepts it, until at least PurposeMin characters follow.
PurposeEndAt(d, i) ==
    LET w0    == i + Len(FOR_WORD)
        wEnd  == RunEnd(d, w0, SpaceIdx(d))
        body(wk) == LET stop == RunEnd(d, wk, {j \in 1..Len(d) : d[j] \notin SentenceEnd})
                        n    == stop - wk
                    IN  IF n > PurposeMax THEN PurposeMax ELSE n
        opts  == {wk \in (w0 + 1)..wEnd : body(wk) >= PurposeMin}
    IN  IF ~MatchAtI(d, i, FOR_WORD) \/ opts = {} THEN 0
        ELSE Max(opts) + body(Max(opts))

PurposeMatch(d) ==
    LET hits == {i \in 1..Len(d) : PurposeEndAt(d, i) > 0}
    IN  IF hits = {} THEN <<0, 0>>
        ELSE <<Min(hits), PurposeEndAt(d, Min(hits))>>

extract_purpose(desc) ==
    LET d == clean_desc(desc)
        m == PurposeMatch(d)
    IN  IF d = <<>> THEN <<>>
        ELSE IF m[1] > 0 THEN StripSet(SubSeq(d, m[1], m[2] - 1), PurposeTrim)
        ELSE StripSet(Join(Take(split(d), FallbackWords), <<SP>>), PurposeTrim)

\* (g|kg|caps|cap|tabs|tab|tablets|ml), in the pattern's order
UNITS ==
    << <<103>> (* "g" *), <<107, 103>> (* "kg" *), <<99, 97, 112, 115>> (* "caps" *), <<99, 97, 112>> (* "cap" *), <<116, 97, 98, 115>> (* "tabs" *), <<116, 97, 98>> (* "tab" *), <<116, 97, 98, 108, 101, 116, 115>> (* "tablets" *), <<109, 108>> (* "ml" *) >>

\* the end (exclusive) of the first alternative of UNITS that matches at k
\* under re.I and is followed by \b; 0 when none does
UnitEndAt(s, k) ==
    LET ok == {u \in 1..Len(UNITS) :
                  MatchAtI(s, k, UNITS[u]) /\ WordBoundary(s, k + Len(UNITS[u]))}
    IN  IF ok = {} THEN 0
        ELSE k + Len(UNITS[Min(ok)])

\* \b\d+\s?(g|...|ml)\b at position i: the end (exclusive) of the match, 0
\* when there is none.  \d+ is greedy and backtracks to fewer digits, \s? is
\* greedy and backtracks to no whitespace.
SizeTokenEndAt(s, i) ==
    LET dEnd == RunEnd(s, i, DigitIdx(s))
        try(j) == LET withWs == IF j <= Len(s) /\ IsSpace(s[j]) THEN UnitEndAt(s, j + 1) ELSE 0
                  IN  IF withWs > 0 THEN withWs ELSE UnitEndAt(s, j)
        ok == {j \in (i + 1)..dEnd : try(j) > 0}
    IN  IF i > Len(s) \/ ~IsDigit(s[i]) \/ ~WordBoundary(s, i) \/ ok = {} THEN 0
        ELSE try(Max(ok))

\* re.sub(r"\b\d+\s?(g|...|ml)\b", "", n, flags=re.I): the matches are found
\* left to right, each search starting where the previous match ended
RECURSIVE StripSizeTokens(_, _)
StripSizeTokens(s, i) ==
    LET hits == {j \in i..Len(s) : SizeTokenEndAt(s, j) > 0}
    IN  IF hits = {} THEN SubSeq(s, i, Len(s))
        ELSE SubSeq(s, i, Min(hits) - 1)
             \o StripSizeTokens(s, SizeTokenEndAt(s, Min(hits)))

normalize_base_name(name) ==
    CollapseWs2(strip(StripSizeTokens(strip(name), 1)), 1)

(***************************************************************************)
(* UA naming rules                                                         *)
(***************************************************************************)
UA_TYPE_RULES ==
    << [keys  |-> << <<99, 114, 101, 97, 116, 105, 110, 101>> (* "creatine" *) >>,
        label |-> <<1082, 1088, 1077, 1072, 1090, 1080, 1085, 32, 1084, 1086, 1085, 1086, 1075, 1110, 1076, 1088, 1072, 1090>> (* "креатин моногідрат" *)],
       [keys  |-> << <<111, 109, 101, 103, 97>> (* "omega" *), <<111, 109, 101, 103, 97, 32, 51>> (* "omega 3" *), <<101, 112, 97>> (* "epa" *), <<100, 104, 97>> (* "dha" *) >>,
        label |-> <<1086, 1084, 1077, 1075, 1072, 45, 51, 32, 1078, 1080, 1088, 1085, 1110, 32, 1082, 1080, 1089, 1083, 1086, 1090, 1080>> (* "омега-3 жирні кислоти" *)],
       [keys  |-> << <<99, 111, 108, 108, 97, 103, 101, 110>> (* "collagen" *) >>,
        label |-> <<1075, 1110, 1076, 1088, 1086, 1083, 1110, 1079, 1086, 1074, 1072, 1085, 1080, 1081, 32, 1082, 1086, 1083, 1072, 1075, 1077, 1085>> (* "гідролізований колаген" *)],
       [keys  |-> << <<119, 104, 101, 121>> (* "whey" *), <<119, 104, 101, 121, 32, 112, 114, 111, 116, 101, 105, 110>> (* "whey protein" *), <<119, 104, 101, 121, 32, 105, 115, 111, 108, 97, 116, 101>> (* "whey isolate" *), <<105, 115, 111, 108, 97, 116, 101>> (* "isolate" *), <<112, 114, 111, 116, 101, 105, 110>> (* "protein" *) >>,
        label |-> <<1089, 1080, 1088, 1086, 1074, 1072, 1090, 1082, 1086, 1074, 1080, 1081, 32, 1087, 1088, 1086, 1090, 1077, 1111, 1085>> (* "сироватковий протеїн" *)],
       [keys  |-> << <<98, 99, 97, 97>> (* "bcaa" *) >>,
        label |-> <<1072, 1084, 1110, 1085, 1086, 1082, 1080, 1089, 1083, 1086, 1090, 1080, 32, 66, 67, 65, 65>> (* "амінокислоти BCAA" *)],
       [keys  |-> << <<103, 108, 117, 116, 97, 109, 105, 110, 101>> (* "glutamine" *) >>,
        label |-> <<1075, 1083, 1102, 1090, 1072, 1084, 1110, 1085>> (* "глютамін" *)],
       [keys  |-> << <<109, 117, 108, 116, 105, 118, 105, 116, 97, 109, 105, 110>> (* "multivitamin" *), <<109, 117, 108, 116, 105>> (* "multi" *) >>,
        label |-> <<1084, 1091, 1083, 1100, 1090, 1080, 1074, 1110, 1090, 1072, 1084, 1110, 1085, 1085, 1080, 1081, 32, 1082, 1086, 1084, 1087, 1083, 1077, 1082, 1089>> (* "мультивітамінний комплекс" *)],
       [keys  |-> << <<122, 105, 110, 99>> (* "zinc" *) >>,
        label |-> <<1094, 1080, 1085, 1082>> (* "цинк" *)],
       [keys  |-> << <<109, 97, 103, 110, 101, 115, 105, 117, 109>> (* "magnesium" *) >>,
        label |-> <<1084, 1072, 1075, 1085, 1110, 1081>> (* "магній" *)],
       [keys  |-> << <<118, 105, 116, 97, 109, 105, 110, 32, 99>> (* "vitamin c" *) >>,
        label |-> <<1074, 1110, 1090, 1072, 1084, 1110, 1085, 32, 67>> (* "вітамін C" *)],
       [keys  |-> << <<118, 105, 116, 97, 109, 105, 110, 32, 100>> (* "vitamin d" *) >>,
        label |-> <<1074, 1110, 1090, 1072, 1084, 1110, 1085, 32, 68>> (* "вітамін D" *)] >>

\* any(k in lname for k in keys)
RuleMatches(r, lname) ==
    \E k \in 1..Len(UA_TYPE_RULES[r].keys) : Contains(lname, UA_TYPE_RULES[r].keys[k])

\* the for loop of detect_ua_type from rule r on
RECURSIVE DetectFrom(_, _)
DetectFrom(lname, r) ==
    IF r > Len(UA_TYPE_RULES) THEN <<>>
    ELSE IF RuleMatches(r, lname) THEN UA_TYPE_RULES[r].label
    ELSE DetectFrom(lname, r + 1)

\* a variant that lets a later rule override an earlier one (last match wins)
detect_ua_type_last(base) ==
    LET hits == {r \in 1..Len(UA_TYPE_RULES) : RuleMatches(r, lower(base))}
    IN  IF hits = {} THEN <<>> ELSE UA_TYPE_RULES[Max(hits)].label

detect_ua_type(base) == DetectFrom(lower(base), 1)

ANIMAL_FLEX == <<65, 110, 105, 109, 97, 108, 32, 70, 108, 101, 120>> (* "Animal Flex" *)
ANIMAL_FLEX_SUFFIX == <<32, 8212, 32, 1082, 1086, 1084, 1087, 1083, 1077, 1082, 1089, 32, 1076, 1083, 1103, 32, 1089, 1091, 1075, 1083, 1086, 1073, 1110, 1074, 32, 1090, 1072, 32, 1079, 1074, 39, 1103, 1079, 1086, 1082>> (* " — комплекс для суглобів та зв'язок" *)
DASH_SEP == <<32, 8212, 32>> (* " — " *)

\* \bAnimal Flex\b matches at position i under re.I
AnimalFlexAt(s, i) ==
    /\ WordBoundary(s, i)
    /\ MatchAtI(s, i, ANIMAL_FLEX)
    /\ WordBoundary(s, i + Len(ANIMAL_FLEX))

\* re.search(r"\bAnimal Flex\b", n, flags=re.I)
HasAnimalFlex(s) == \E i \in 1..Len(s) : AnimalFlexAt(s, i)

\* re.sub(r"(?i)\bAnimal Flex\b", "Animal Flex", n)
RECURSIVE SubAnimalFlex(_, _)
SubAnimalFlex(s, i) ==
    LET hits == {j \in i..Len(s) : AnimalFlexAt(s, j)}
    IN  IF hits = {} THEN SubSeq(s, i, Len(s))
        ELSE SubSeq(s, i, Min(hits) - 1) \o ANIMAL_FLEX
             \o SubAnimalFlex(s, Min(hits) + Len(ANIMAL_FLEX))

\* a variant that extracts a purpose whether or not the name holds "—" or ":"
RenameUaRules_NoDashGuard(n, desc, vendor) ==
    LET base == normalize_base_name(n)
        v == strip(vendor)
        product_type == detect_ua_type(base)
        purpose == extract_purpose(desc)
    IN  IF product_type # <<>>
        THEN (IF v # <<>> THEN base \o <<SP>> \o v \o DASH_SEP \o product_type
              ELSE base \o DASH_SEP \o product_type)
        ELSE IF purpose # <<>>
        THEN (IF v # <<>> THEN base \o <<SP>> \o v \o DASH_SEP \o purpose
              ELSE base \o DASH_SEP \o purpose)
        ELSE IF v # <<>> /\ ~Contains(lower(base), lower(v))
        THEN base \o <<SP>> \o v
        ELSE n

\* a variant that composes the results from the raw name, size tokens kept
RenameUaRules_RawName(n, desc, vendor) ==
    LET base == normalize_base_name(n)
        v == strip(vendor)
        product_type == detect_ua_type(base)
        purpose == extract_purpose(desc)
    IN  IF product_type # <<>>
        THEN (IF v # <<>> THEN n \o <<SP>> \o v \o DASH_SEP \o product_type
              ELSE n \o DASH_SEP \o product_type)
        ELSE IF ~Contains(base, <<EMDASH>>) /\ ~Contains(base, <<COLON>>) /\ purpose # <<>>
        THEN (IF v # <<>> THEN n \o <<SP>> \o v \o DASH_SEP \o purpose
              ELSE n \o DASH_SEP \o purpose)
        ELSE IF v # <<>> /\ ~Contains(lower(base), lower(v))
        THEN n \o <<SP>> \o v
        ELSE n

\* the branches of rename_ua after the exact-phrase case
RenameUaRules(n, desc, vendor) ==
    LET base == normalize_base_name(n)
        v == strip(vendor)
        product_type == detect_ua_type(base)
        purpose == extract_purpose(desc)
    IN  IF product_type # <<>>
        THEN (IF v # <<>> THEN base \o <<SP>> \o v \o DASH_SEP \o product_type
              ELSE base \o DASH_SEP \o product_type)
        ELSE IF ~Contains(base, <<EMDASH>>) /\ ~Contains(base, <<COLON>>) /\ purpose # <<>>
        THEN (IF v # <<>> THEN base \o <<SP>> \o v \o DASH_SEP \o purpose
              ELSE base \o DASH_SEP \o purpose)
        ELSE IF v # <<>> /\ ~Contains(lower(base), lower(v))
        THEN base \o <<SP>> \o v
        ELSE n

\* the exact-phrase case of rename_ua ("Animal Flex")
RenameUaAnimalFlex(n, vendor) ==
    strip(strip(SubAnimalFlex(n, 1)) \o <<SP>> \o vendor) \o ANIMAL_FLEX_SUFFIX

rename_ua(name, desc, vendor) ==
    LET n == strip(name)
    IN  IF HasAnimalFlex(n) THEN RenameUaAnimalFlex(n, vendor)
        ELSE RenameUaRules(n, desc, vendor)

(***************************************************************************)
(* RU naming rules                                                         *)
(***************************************************************************)
\* a variant unified with the UA rules
rename_ru_unified(name, desc, vendor) == rename_ua(name, desc, vendor)

rename_ru(name, desc, vendor) ==
    LET n == strip(name)
        base == normalize_base_name(n)
        v == strip(vendor)
    IN  IF v # <<>> /\ ~Contains(lower(base), lower(v))
        THEN base \o <<SP>> \o v
        ELSE n

(***************************************************************************)
(* Documents (lxml trees), JSON values                                     *)
(***************************************************************************)
\* A child element that may be missing: present says whether the element
\* exists, text is its text ("" for an element without text).
Absent  == [present |-> FALSE, text |-> <<>>]
El(t)   == [present |-> TRUE, text |-> t]

\* offer.findtext(tag) or "" ; (el.text if el is not None else "") or ""
TextOrEmpty(el) == IF el.present THEN el.text ELSE <<>>

\* A JSON scalar: a string, an integer or null
JStr(s) == [t |-> "str", s |-> s, n |-> 0]
JInt(n) == [t |-> "int", s |-> <<>>, n |-> n]
JNull   == [t |-> "null", s |-> <<>>, n |-> 0]

\* Python truth value of a JSON scalar
Truthy(v) == (v.t = "str" /\ v.s # <<>>) \/ (v.t = "int" /\ v.n # 0)

\* str(n) for an integer n >= 0
RECURSIVE Digits(_)
Digits(n) == IF n < 10 THEN <<48 + n>> ELSE Digits(n \div 10) \o <<48 + (n % 10)>>

\* str(v)
PyStr(v) ==
    IF v.t = "str" THEN v.s
    ELSE IF v.t = "int" THEN (IF v.n < 0 THEN <<45>> \o Digits(0 - v.n) ELSE Digits(v.n))
    ELSE <<78, 111, 110, 101>> (* "None" *)

\* children of <shop>
CategoriesNode(cats) == [tag |-> "categories", cats |-> cats, offers |-> <<>>]
OffersNode(offers)   == [tag |-> "offers", cats |-> <<>>, offers |-> offers]

\* node.find(tag): the index of the first child with that tag, 0 for None
Find(children, tag) ==
    LET hits == {i \in 1..Len(children) : children[i].tag = tag}
    IN  IF hits = {} THEN 0 ELSE Min(hits)

\* node.remove(child) for the child at index k
Remove(children, k) ==
    [i \in 1..(Len(children) - 1) |-> IF i < k THEN children[i] ELSE children[i + 1]]

(***************************************************************************)
(* apply_categories                                                        *)
(***************************************************************************)
\* one <category> element built from a taxonomy record c
CategoryElement(c, lg) ==
    LET parent == strip(IF c.parentId.present /\ Truthy(c.parentId.value)
                        THEN PyStr(c.parentId.value) ELSE <<>>)
    IN  [id        |-> PyStr(c.id),
         hasParent |-> parent # <<>>,
         parentId  |-> parent,
         text      |-> IF lg = "ua" THEN c.ua ELSE c.ru]

\* the children of shop after apply_categories(shop, categories_def, lang)
apply_categories(shop, cdef, lg) ==
    LET old  == Find(shop, "categories")
        kept == IF old # 0 THEN Remove(shop, old) ELSE shop
        cats == [i \in 1..Len(cdef.categories) |-> CategoryElement(cdef.categories[i], lg)]
    IN  Append(kept, CategoriesNode(cats))

(***************************************************************************)
(* apply_category_ids                                                      *)
(***************************************************************************)
\* a variant that writes the stripped code back into <vendorCode>
AssignCategoryId_StripsCode(offer, cmap) ==
    LET vendor_code == strip(TextOrEmpty(offer.vendorCode))
    IN  IF vendor_code = <<>> THEN offer
        ELSE IF vendor_code \notin DOMAIN cmap THEN offer
        ELSE IF ~Truthy(cmap[vendor_code]) THEN offer
        ELSE [offer EXCEPT !.vendorCode = El(vendor_code),
                           !.categoryId = El(PyStr(cmap[vendor_code]))]

\* a variant that assigns whatever the key is mapped to, empty values included
AssignCategoryId_AnyValue(offer, cmap) ==
    LET vendor_code == strip(TextOrEmpty(offer.vendorCode))
    IN  IF vendor_code = <<>> THEN offer
        ELSE IF vendor_code \notin DOMAIN cmap THEN offer
        ELSE [offer EXCEPT !.categoryId = El(PyStr(cmap[vendor_code]))]

\* the body of the loop of apply_category_ids for one offer
AssignCategoryId(offer, cmap) ==
    LET vendor_code == strip(TextOrEmpty(offer.vendorCode))
    IN  IF vendor_code = <<>> THEN offer
        ELSE IF vendor_code \notin DOMAIN cmap THEN offer
        ELSE IF ~Truthy(cmap[vendor_code]) THEN offer
        ELSE [offer EXCEPT !.categoryId = El(PyStr(cmap[vendor_code]))]

\* the offers after apply_category_ids(offers_node, category_map)
apply_category_ids(offers, cmap) ==
    [i \in 1..Len(offers) |-> AssignCategoryId(offers[i], cmap)]

(***************************************************************************)
(* The rename loop of build                                                *)
(***************************************************************************)
\* one iteration of "for offer in offers_node.findall('offer')"
RenameOffer(offer, lg) ==
    IF ~offer.name.present THEN offer
    ELSE LET name_txt == offer.name.text
             desc_txt == TextOrEmpty(offer.description)
             vendor   == TextOrEmpty(offer.vendor)
         IN  [offer EXCEPT !.name =
                 El(IF lg = "ua" THEN rename_ua(name_txt, desc_txt, vendor)
                    ELSE rename_ru(name_txt, desc_txt, vendor))]

(***************************************************************************)
(* Inputs                                                                  *)
(***************************************************************************)
N_AnimalFlex500 == <<65, 110, 105, 109, 97, 108, 32, 70, 108, 101, 120, 32, 53, 48, 48, 103>> (* "Animal Flex 500g" *)
N_Creatine      == <<67, 114, 101, 97, 116, 105, 110, 101, 32, 77, 111, 110, 111, 104, 121, 100, 114, 97, 116, 101>> (* "Creatine Monohydrate" *)
N_XyzBlend      == <<88, 89, 90, 32, 66, 108, 101, 110, 100>> (* "XYZ Blend" *)
V_Universal     == <<85, 110, 105, 118, 101, 114, 115, 97, 108>> (* "Universal" *)
V_Optimum       == <<79, 112, 116, 105, 109, 117, 109>> (* "Optimum" *)
D_Recovery      == <<1056, 1077, 1082, 1086, 1084, 1077, 1085, 1076, 1086, 1074, 1072, 1085, 1086, 32, 1076, 1083, 1103, 32, 1074, 1110, 1076, 1085, 1086, 1074, 1083, 1077, 1085, 1085, 1103, 32, 1087, 1110, 1089, 1083, 1103, 32, 1090, 1088, 1077, 1085, 1091, 1074, 1072, 1085, 1100, 46, 32, 1064, 1090, 1088, 1080, 1093, 1082, 1086, 1076, 32, 49, 50, 51>> (* "Рекомендовано для відновлення після тренувань. Штрихкод 123" *)

\* raw names
NAMES ==
    { <<>>,
      N_AnimalFlex500,
      <<97, 110, 105, 109, 97, 108, 32, 70, 76, 69, 88, 32, 119, 104, 101, 121, 32, 54, 48, 32, 99, 97, 112, 115, 32, 8212, 32, 106, 111, 105, 110, 116>> (* "animal FLEX whey 60 caps — joint" *),
      <<65, 110, 105, 109, 97, 108, 32, 70, 108, 101, 120, 120>> (* "Animal Flexx" *),
      N_Creatine,
      <<67, 114, 101, 97, 116, 105, 110, 101, 32, 51, 48, 48, 32, 103, 32, 8212, 32, 80, 117, 114, 101>> (* "Creatine 300 g — Pure" *),
      N_XyzBlend,
      <<32, 88, 89, 90, 32, 32, 66, 108, 101, 110, 100, 32, 54, 48, 32, 99, 97, 112, 115, 32>> (* " XYZ  Blend 60 caps " *),
      <<77, 97, 115, 115, 32, 8212, 32, 71, 97, 105, 110, 101, 114, 32, 50, 32, 107, 103>> (* "Mass — Gainer 2 kg" *),
      <<65, 109, 105, 110, 111, 58, 32, 67, 111, 109, 112, 108, 101, 120, 32, 49, 48, 48, 32, 109, 108>> (* "Amino: Complex 100 ml" *),
      <<66, 67, 65, 65, 32, 71, 108, 117, 116, 97, 109, 105, 110, 101, 32, 87, 104, 101, 121>> (* "BCAA Glutamine Whey" *),
      <<79, 109, 101, 103, 97, 32, 51, 32, 67, 111, 108, 108, 97, 103, 101, 110, 32, 49, 50, 48, 32, 116, 97, 98, 115>> (* "Omega 3 Collagen 120 tabs" *),
      <<86, 105, 116, 97, 109, 105, 110, 32, 68, 51, 32, 54, 48, 99, 97, 112, 115>> (* "Vitamin D3 60caps" *),
      <<120, 53, 48, 48, 103, 32, 90, 110, 32, 51, 48, 32, 116, 97, 98, 108, 101, 116, 115>> (* "x500g Zn 30 tablets" *),
      <<53, 48, 48, 103>> (* "500g" *) }

\* raw descriptions
DESCS ==
    { <<>>,
      D_Recovery,
      <<1050, 1086, 1076, 32, 49, 50, 51>> (* "Код 123" *),
      <<1076, 1083, 1103, 32, 1089, 1085, 1091>> (* "для сну" *),
      <<1057, 1084, 1072, 1095, 1085, 1080, 1081, 32, 1073, 1072, 1090, 1086, 1085, 1095, 1080, 1082, 32, 1079, 32, 1075, 1086, 1088, 1110, 1093, 1072, 1084, 1080, 44, 32, 32, 1084, 1077, 1076, 1086, 1084, 32, 1090, 1072, 32, 1082, 1072, 1082, 1072, 1086, 32, 1073, 1077, 1079, 32, 1094, 1091, 1082, 1088, 1091, 32, 1110, 32, 1075, 1083, 1102, 1090, 1077, 1085, 1091, 46, 32, 1040, 1088, 1090, 1080, 1082, 1091, 1083, 32, 53>> (* "Смачний батончик з горіхами,  медом та какао без цукру і глютену. Артикул 5" *),
      <<80, 114, 111, 116, 101, 105, 110, 32, 98, 108, 101, 110, 100, 32, 1044, 1051, 1071, 32, 32, 1085, 1072, 1073, 1086, 1088, 1091, 32, 1084, 39, 1103, 1079, 1086, 1074, 1086, 1111, 32, 1084, 1072, 1089, 1080, 32, 1090, 1072, 32, 1089, 1080, 1083, 1080, 44, 32, 1074, 1080, 1090, 1088, 1080, 1074, 1072, 1083, 1086, 1089, 1090, 1110, 32, 1081, 32, 1096, 1074, 1080, 1076, 1082, 1086, 1075, 1086, 32, 1074, 1110, 1076, 1085, 1086, 1074, 1083, 1077, 1085, 1085, 1103, 32, 1087, 1110, 1089, 1083, 1103, 32, 1074, 1072, 1078, 1082, 1080, 1093, 32, 1089, 1080, 1083, 1086, 1074, 1080, 1093, 32, 1090, 1088, 1077, 1085, 1091, 1074, 1072, 1085, 1100, 32, 1091, 32, 1079, 1072, 1083, 1110, 32, 1090, 1072, 32, 1074, 1076, 1086, 1084, 1072, 33, 32, 83, 75, 85, 32, 55>> (* "Protein blend ДЛЯ  набору м'язової маси та сили, витривалості й швидкого відновлення після важких силових тренувань у залі та вдома! SKU 7" *) }

\* raw vendors
VENDORS == { <<>>, V_Universal, <<32, 79, 112, 116, 105, 109, 117, 109, 32>> (* " Optimum " *), <<120, 121, 122>> (* "xyz" *) }

\* text of ids, vendor codes and category ids
T_1  == <<49>> (* "1" *)
T_2  == <<50>> (* "2" *)
T_3  == <<51>> (* "3" *)
T_4  == <<52>> (* "4" *)
T_5  == <<53>> (* "5" *)
T_A1 == <<65, 49>> (* "A1" *)
T_B2 == <<66, 50>> (* "B2" *)
T_B2pad == <<32, 66, 50, 32>> (* " B2 " *)
T_Z9 == <<90, 57>> (* "Z9" *)
T_10 == <<49, 48>> (* "10" *)
T_30 == <<51, 48>> (* "30" *)
T_40 == <<52, 48>> (* "40" *)
T_77 == <<55, 55>> (* "77" *)
T_88 == <<56, 56>> (* "88" *)
T_99 == <<57, 57>> (* "99" *)

\* the offers a feed is composed of: well-formed ones and ones lacking
\* elements or holding empty ones
OFFERS ==
    { [id |-> T_1, vendorCode |-> El(T_A1), categoryId |-> El(T_10),
       name |-> El(<<67, 114, 101, 97, 116, 105, 110, 101, 32, 77, 111, 110, 111, 104, 121, 100, 114, 97, 116, 101, 32, 51, 48, 48, 103>> (* "Creatine Monohydrate 300g" *)), description |-> El(<<>>),
       vendor |-> El(V_Optimum)],
      [id |-> T_2, vendorCode |-> El(T_B2pad), categoryId |-> Absent,
       name |-> El(N_XyzBlend), description |-> El(D_Recovery), vendor |-> Absent],
      [id |-> T_3, vendorCode |-> Absent, categoryId |-> El(T_30),
       name |-> Absent, description |-> Absent, vendor |-> El(V_Universal)],
      [id |-> T_4, vendorCode |-> El(<<>>), categoryId |-> El(T_40),
       name |-> El(N_AnimalFlex500), description |-> Absent, vendor |-> El(V_Universal)],
      [id |-> T_5, vendorCode |-> El(T_Z9), categoryId |-> El(<<>>),
       name |-> El(<<>>), description |-> El(<<1050, 1086, 1076, 32, 49, 50, 51>> (* "Код 123" *)), vendor |-> El(<<>>)] }

MaxOffers == 2

RECURSIVE SeqsUpTo(_, _)
SeqsUpTo(S, n) ==
    IF n = 0 THEN {<<>>}
    ELSE LET shorter == SeqsUpTo(S, n - 1)
         IN  shorter \cup {Append(q, x) : q \in {p \in shorter : Len(p) = n - 1}, x \in S}

\* <categories> collections as they arrive in the source feed
FEED_CATS_A == CategoriesNode(<< [id |-> <<57, 48, 48>> (* "900" *), hasParent |-> FALSE, parentId |-> <<>>,
                                  text |-> <<1057, 1087, 1086, 1088, 1090, 1080, 1074, 1085, 1077, 32, 1093, 1072, 1088, 1095, 1091, 1074, 1072, 1085, 1085, 1103>> (* "Спортивне харчування" *)] >>)
FEED_CATS_B == CategoriesNode(<< [id |-> <<57, 48, 49>> (* "901" *), hasParent |-> TRUE, parentId |-> <<57, 48, 48>> (* "900" *),
                                  text |-> <<1042, 1110, 1090, 1072, 1084, 1110, 1085, 1080>> (* "Вітаміни" *)] >>)

\* the children of <shop> before <offers>: no, one or two <categories>
SHOP_HEADS == { <<>>, <<FEED_CATS_A>>, <<FEED_CATS_A, FEED_CATS_B>> }

\* the document with no <shop>; also stands for "not fetched yet"
NO_SHOP == [hasShop |-> FALSE, shop |-> <<>>]

\* the documents the URL may serve
FEEDS ==
    {NO_SHOP}
    \cup {[hasShop |-> TRUE, shop |-> h] : h \in SHOP_HEADS}
    \cup {[hasShop |-> TRUE, shop |-> Append(h, OffersNode(os))] :
              h \in SHOP_HEADS, os \in SeqsUpTo(OFFERS, MaxOffers)}

\* tools/categories.json
TAXONOMY ==
    [categories |->
        << [id |-> JInt(1), parentId |-> [present |-> FALSE, value |-> JNull],
            ua |-> <<1055, 1088, 1086, 1090, 1077, 1111, 1085>> (* "Протеїн" *), ru |-> <<1055, 1088, 1086, 1090, 1077, 1080, 1085>> (* "Протеин" *)],
           [id |-> JStr(T_2), parentId |-> [present |-> TRUE, value |-> JInt(1)],
            ua |-> <<1050, 1088, 1077, 1072, 1090, 1080, 1085>> (* "Креатин" *), ru |-> <<1050, 1088, 1077, 1072, 1090, 1080, 1085>> (* "Креатин" *)],
           [id |-> JInt(3), parentId |-> [present |-> TRUE, value |-> JStr(<<>>)],
            ua |-> <<1042, 1110, 1090, 1072, 1084, 1110, 1085, 1080>> (* "Вітаміни" *), ru |-> <<1042, 1080, 1090, 1072, 1084, 1080, 1085, 1099>> (* "Витамины" *)],
           [id |-> JInt(4), parentId |-> [present |-> TRUE, value |-> JNull],
            ua |-> <<1040, 1084, 1110, 1085, 1086, 1082, 1080, 1089, 1083, 1086, 1090, 1080>> (* "Амінокислоти" *), ru |-> <<1040, 1084, 1080, 1085, 1086, 1082, 1080, 1089, 1083, 1086, 1090, 1099>> (* "Аминокислоты" *)] >>]

\* tools/category_map.json, its "map" object ({} when the key is missing)
MAPS ==
    { <<>>,
      (T_A1 :> JStr(T_77)) @@ (T_B2 :> JInt(5)) @@ (T_Z9 :> JStr(<<>>)),
      (T_A1 :> JInt(0)) @@ (T_B2pad :> JStr(T_88)) @@ (T_Z9 :> JStr(T_99)),
      (T_A1 :> JNull) @@ (T_B2 :> JStr(T_88)) }

\* what OUT_UA / OUT_RU hold before main runs: nothing, or an earlier output
NoFile == [exists |-> FALSE, doc |-> NO_SHOP]
OldFile == [exists |-> TRUE, doc |-> [hasShop |-> TRUE, shop |-> <<FEED_CATS_B>>]]
FileOf(doc) == [exists |-> TRUE, doc |-> doc]
LANGS == {"ua", "ru"}

\* what the second fetch may return after the first returned doc: the same
\* document, or one that lost its <shop> or its <offers>
REFETCH(doc) == {doc, NO_SHOP, [hasShop |-> TRUE, shop |-> <<FEED_CATS_A>>]}

(***************************************************************************)
(* The driver: main and build                                              *)
(***************************************************************************)
ERR_NONE   == <<>>
ERR_FETCH  == <<72, 84, 84, 80, 69, 114, 114, 111, 114>> (* "HTTPError" *)
ERR_SHOP   == <<1053, 1077, 32, 1085, 1072, 1081, 1076, 1077, 1085, 32, 60, 115, 104, 111, 112, 62>> (* "Не найден <shop>" *)
ERR_OFFERS == <<1053, 1077, 32, 1085, 1072, 1081, 1076, 1077, 1085, 32, 60, 111, 102, 102, 101, 114, 115, 62>> (* "Не найден <offers>" *)
ERR_ATTRIBUTE == <<65, 116, 116, 114, 105, 98, 117, 116, 101, 69, 114, 114, 111, 114, 58, 32, 39, 78, 111, 110, 101, 84, 121, 112, 101, 39, 32, 111, 98, 106, 101, 99, 116, 32, 104, 97, 115, 32, 110, 111, 32, 97, 116, 116, 114, 105, 98, 117, 116, 101>> (* "AttributeError: 'NoneType' object has no attribute" *)

\* the offers of the first <offers> child of shop
OffersOf(doc) == doc.shop[Find(doc.shop, "offers")].offers

Init ==
    /\ pc = "build"
    /\ lang = "ua"
    /\ feed = [l \in LANGS |-> NO_SHOP]
    /\ categories_def = TAXONOMY
    /\ category_map \in MAPS
    /\ tree = NO_SHOP
    /\ idx = 0
    /\ prev \in {[l \in LANGS |-> NoFile], [l \in LANGS |-> OldFile]}
    /\ files = prev
    /\ err = ERR_NONE
    \* the normalizers are not applied on their own in this specification
    /\ rname = <<>>
    /\ rdesc = <<>>
    /\ rvendor = <<>>
    /\ rop = "idle"
    /\ rout = <<>>
    /\ rout2 = <<>>

\* an exception leaves build and main: the process ends
Raise(e) ==
    /\ pc' = "failed"
    /\ err' = e
    /\ UNCHANGED <<lang, feed, categories_def, category_map, tree, idx, files, prev>>
    /\ UNCHANGED ren

\* build: load_json twice, then fetch_xml returns a parsed document; each
\* language fetches on its own
FetchOk ==
    /\ pc = "build"
    /\ \E doc \in (IF lang = "ua" THEN FEEDS ELSE REFETCH(feed["ua"])) :
           /\ feed' = [feed EXCEPT ![lang] = doc]
           /\ tree' = doc
    /\ pc' = "shop"
    /\ UNCHANGED <<lang, categories_def, category_map, idx, files, prev, err>>
    /\ UNCHANGED ren

\* build: requests.get or raise_for_status raises
FetchFail ==
    /\ pc = "build"
    /\ Raise(ERR_FETCH)

\* build: shop = root.find("shop"), found; apply_categories(shop, ...)
ApplyCategories ==
    /\ pc = "shop"
    /\ tree.hasShop
    /\ tree' = [tree EXCEPT !.shop = apply_categories(tree.shop, categories_def, lang)]
    /\ pc' = "offers"
    /\ UNCHANGED <<lang, feed, categories_def, category_map, idx, files, prev, err>>
    /\ UNCHANGED ren

\* a variant without the None test: shop.find on None raises AttributeError
ShopMissing_Unchecked ==
    /\ pc = "shop"
    /\ ~tree.hasShop
    /\ Raise(ERR_ATTRIBUTE)

\* build: shop is None
ShopMissing ==
    /\ pc = "shop"
    /\ ~tree.hasShop
    /\ Raise(ERR_SHOP)

\* build: offers_node = shop.find("offers"), found; apply_category_ids(...)
ApplyCategoryIds ==
    /\ pc = "offers"
    /\ Find(tree.shop, "offers") # 0
    /\ tree' = [tree EXCEPT !.shop[Find(tree.shop, "offers")].offers =
                    apply_category_ids(@, category_map)]
    /\ idx' = 1
    /\ pc' = "rename"
    /\ UNCHANGED <<lang, feed, categories_def, category_map, files, prev, err>>
    /\ UNCHANGED ren

\* build: offers_node is None
OffersMissing ==
    /\ pc = "offers"
    /\ Find(tree.shop, "offers") = 0
    /\ Raise(ERR_OFFERS)

\* a variant that reads desc_el.text without the None check
RenameStep_Unchecked ==
    /\ pc = "rename"
    /\ idx <= Len(OffersOf(tree))
    /\ IF OffersOf(tree)[idx].name.present /\ ~OffersOf(tree)[idx].description.present
       THEN Raise(ERR_ATTRIBUTE)
       ELSE /\ tree' = [tree EXCEPT !.shop[Find(tree.shop, "offers")].offers[idx] =
                           RenameOffer(@, lang)]
            /\ idx' = idx + 1
            /\ UNCHANGED <<pc, lang, feed, categories_def, category_map, files, prev, err>>
            /\ UNCHANGED ren

\* build: one iteration of the rename loop
RenameStep ==
    /\ pc = "rename"
    /\ idx <= Len(OffersOf(tree))
    /\ tree' = [tree EXCEPT !.shop[Find(tree.shop, "offers")].offers[idx] =
                    RenameOffer(@, lang)]
    /\ idx' = idx + 1
    /\ UNCHANGED <<pc, lang, feed, categories_def, category_map, files, prev, err>>
    /\ UNCHANGED ren

\* a variant that writes while the last offer is still to be renamed
Write_BeforeLastRename ==
    /\ pc = "rename"
    /\ idx >= Len(OffersOf(tree))
    /\ files' = [files EXCEPT ![lang] = FileOf(tree)]
    /\ IF lang = "ua"
       THEN /\ lang' = "ru"
            /\ pc' = "build"
       ELSE /\ pc' = "ok"
            /\ UNCHANGED lang
    /\ idx' = 0
    /\ UNCHANGED <<feed, categories_def, category_map, tree, prev, err>>
    /\ UNCHANGED ren

\* main: build(lang) returned, tree.write(OUT_<lang>); then the next
\* language, or print("OK")
Write ==
    /\ pc = "rename"
    /\ idx > Len(OffersOf(tree))
    /\ files' = [files EXCEPT ![lang] = FileOf(tree)]
    /\ IF lang = "ua"
       THEN /\ lang' = "ru"
            /\ pc' = "build"
       ELSE /\ pc' = "ok"
            /\ UNCHANGED lang
    /\ idx' = 0
    /\ UNCHANGED <<feed, categories_def, category_map, tree, prev, err>>
    /\ UNCHANGED ren

Next ==
    \/ FetchOk
    \/ FetchFail
    \/ ApplyCategories
    \/ ShopMissing
    \/ ApplyCategoryIds
    \/ OffersMissing
    \/ RenameStep
    \/ Write

Spec == Init /\ [][Next]_vars

(***************************************************************************)
(* The title normalizers applied to drawn (name, desc, vendor)             *)
(***************************************************************************)
ApplyRenameUa ==
    /\ rop = "none"
    /\ rout' = rename_ua(rname, rdesc, rvendor)
    /\ rop' = "ua"
    /\ UNCHANGED <<rname, rdesc, rvendor, rout2>>
    /\ UNCHANGED drv

ApplyRenameRu ==
    /\ rop = "none"
    /\ rout' = rename_ru(rname, rdesc, rvendor)
    /\ rop' = "ru"
    /\ UNCHANGED <<rname, rdesc, rvendor, rout2>>
    /\ UNCHANGED drv

\* normalization run again on an already normalized name
ApplyRenameUaAgain ==
    /\ rop = "ua"
    /\ rout2' = rename_ua(rout, rdesc, rvendor)
    /\ rop' = "ua2"
    /\ UNCHANGED <<rname, rdesc, rvendor, rout>>
    /\ UNCHANGED drv

InitRename ==
    /\ rname \in NAMES
    /\ rdesc \in DESCS
    /\ rvendor \in VENDORS
    /\ rop = "none"
    /\ rout = <<>>
    /\ rout2 = <<>>
    \* the driver does not run in this specification
    /\ pc = "idle"
    /\ lang = "ua"
    /\ feed = [l \in LANGS |-> NO_SHOP]
    /\ categories_def = TAXONOMY
    /\ category_map = <<>>
    /\ tree = NO_SHOP
    /\ idx = 0
    /\ prev = [l \in LANGS |-> NoFile]
    /\ files = prev
    /\ err = ERR_NONE

NextRename ==
    \/ ApplyRenameUa
    \/ ApplyRenameRu
    \/ ApplyRenameUaAgain

SpecRename == InitRename /\ [][NextRename]_vars

(***************************************************************************)
(* Properties of the title normalizers (checked under SpecRename)          *)
(***************************************************************************)
\* the arguments as rename_ua / rename_ru see them
ArgN    == strip(rname)
ArgBase == normalize_base_name(strip(rname))
ArgV    == strip(rvendor)

\* base, then the brand unless blank
BaseBrand(base, v) == IF v # <<>> THEN base \o <<SP>> \o v ELSE base

\* the rules of UA_TYPE_RULES with a keyword occurring in the lower-cased text
MatchingRules(text) == {r \in 1..Len(UA_TYPE_RULES) : RuleMatches(r, lower(text))}

\* the brand-only and no-op fallbacks for normalized name base and raw name n
BrandOrSame(base, n, v) ==
    IF v # <<>> /\ ~Contains(lower(base), lower(v)) THEN base \o <<SP>> \o v ELSE n

\* C4 as stated: a name that already contains an em-dash gets no further type
\* or purpose text, and normalizing a result that contains an em-dash again
\* returns it unchanged.
C4_Original ==
    /\ (rop \in {"ua", "ua2"} /\ Contains(rname, <<EMDASH>>))
           => rout = BrandOrSame(ArgBase, ArgN, ArgV)
    /\ (rop = "ua2" /\ Contains(rout, <<EMDASH>>)) => rout2 = rout

\* C4 amended: only purpose extraction is skipped for a name with an em-dash.
\* When such a name holds neither the exact phrase nor a type keyword the
\* result is the brand-only or no-op fallback whatever the description; and a
\* result r containing an em-dash is returned unchanged by a second run when
\* r has no surrounding whitespace, holds neither the exact phrase nor a type
\* keyword, and the brand is blank or occurs in normalized r.
C4_EmDashSkipsPurposeOnly ==
    /\ (/\ rop \in {"ua", "ua2"}
        /\ Contains(rname, <<EMDASH>>)
        /\ ~HasAnimalFlex(ArgN)
        /\ MatchingRules(ArgBase) = {})
           => rout = BrandOrSame(ArgBase, ArgN, ArgV)
    /\ (/\ rop = "ua2"
        /\ Contains(rout, <<EMDASH>>)
        /\ strip(rout) = rout
        /\ ~HasAnimalFlex(rout)
        /\ MatchingRules(normalize_base_name(rout)) = {}
        /\ (ArgV = <<>> \/ Contains(lower(normalize_base_name(rout)), lower(ArgV))))
           => rout2 = rout

\* C4 witness: a name with an em-dash and a description that yields a purpose
\* was normalized twice, the brand was appended and nothing else.
C4_Witness ==
    /\ rop = "ua2"
    /\ Contains(rname, <<EMDASH>>)
    /\ extract_purpose(rdesc) # <<>>
    /\ ArgV # <<>>
    /\ rout = ArgBase \o <<SP>> \o ArgV
    /\ rout2 = rout

\* C6 as stated: rename_ru returns the normalized name, a space and the brand,
\* or the name itself.
C6_Original ==
    rop = "ru" =>
        IF ArgV # <<>> /\ ~Contains(lower(ArgBase), lower(ArgV))
        THEN rout = ArgBase \o <<SP>> \o ArgV
        ELSE rout = rname

\* C6 amended: rename_ru returns the normalized name, a space and the brand
\* stripped of surrounding whitespace (brand non-blank and not a
\* case-insensitive substring of the normalized name), or else the name
\* stripped of surrounding whitespace; the description plays no part and no
\* type or purpose is appended.
C6_RuOnlyBrandSuffix ==
    rop = "ru" =>
        IF ArgV # <<>> /\ ~Contains(lower(ArgBase), lower(ArgV))
        THEN rout = ArgBase \o <<SP>> \o ArgV
        ELSE rout = ArgN

\* C6 witness: rename_ru was applied to arguments for which rename_ua appends
\* a type, and to a name with surrounding whitespace.
C6_Witness ==
    /\ rop = "ru"
    /\ MatchingRules(ArgBase) # {}
    /\ extract_purpose(rdesc) # <<>>
    /\ rout = ArgBase \o <<SP>> \o ArgV
    /\ rout # rename_ua(rname, rdesc, rvendor)

\* the exact-phrase result composed from a name m
AnimalFlexResult(m, vendor) ==
    strip(strip(SubAnimalFlex(m, 1)) \o <<SP>> \o vendor) \o ANIMAL_FLEX_SUFFIX

\* the type, purpose and brand-only results composed from base; n when no
\* rule applies
RuleResult(base, n, desc, v) ==
    LET types == MatchingRules(base)
        purpose == extract_purpose(desc)
    IN  IF types # {} THEN BaseBrand(base, v) \o DASH_SEP \o UA_TYPE_RULES[Min(types)].label
        ELSE IF ~Contains(base, <<EMDASH>>) /\ ~Contains(base, <<COLON>>) /\ purpose # <<>>
        THEN BaseBrand(base, v) \o DASH_SEP \o purpose
        ELSE BrandOrSame(base, n, v)

\* C9 as stated: every rename path, the exact-phrase override included, is
\* composed from the normalized name, and the override comes first.
C9_Original ==
    rop = "ua" =>
        IF HasAnimalFlex(ArgN) THEN rout = AnimalFlexResult(ArgBase, rvendor)
        ELSE rout = RuleResult(ArgBase, ArgN, rdesc, ArgV)

\* C9 amended: the exact-phrase override comes first and is composed from the
\* raw name stripped of surrounding whitespace (size tokens kept); the type,
\* purpose and brand-only results are composed from the normalized name.
C9_OverrideFromRawName ==
    rop = "ua" =>
        IF HasAnimalFlex(ArgN) THEN rout = AnimalFlexResult(ArgN, rvendor)
        ELSE rout = RuleResult(ArgBase, ArgN, rdesc, ArgV)

\* C9 witness: the override was applied to a name with a size token and a
\* type keyword.
C9_Witness ==
    /\ rop = "ua"
    /\ HasAnimalFlex(ArgN)
    /\ ArgBase # ArgN
    /\ MatchingRules(ArgBase) # {}
    /\ extract_purpose(rdesc) # <<>>
    /\ ArgV # <<>>

\* C10: for a name without the exact phrase whose normalized name holds a
\* keyword, rename_ua returns "base [brand] — label" with the label of the
\* first matching rule of the table, whatever the description; "Creatine
\* Monohydrate" with brand "Optimum" gives "Creatine Monohydrate Optimum —
\* креатин моногідрат".
C10_FirstMatchWins ==
    /\ (rop = "ua" /\ ~HasAnimalFlex(ArgN) /\ MatchingRules(ArgBase) # {})
           => rout = BaseBrand(ArgBase, ArgV) \o DASH_SEP
                     \o UA_TYPE_RULES[Min(MatchingRules(ArgBase))].label
    /\ (rop = "ua" /\ rname = N_Creatine /\ rdesc = <<>> /\ rvendor = V_Optimum)
           => rout = <<67, 114, 101, 97, 116, 105, 110, 101, 32, 77, 111, 110, 111, 104, 121, 100, 114, 97, 116, 101, 32, 79, 112, 116, 105, 109, 117, 109, 32, 8212, 32, 1082, 1088, 1077, 1072, 1090, 1080, 1085, 32, 1084, 1086, 1085, 1086, 1075, 1110, 1076, 1088, 1072, 1090>> (* "Creatine Monohydrate Optimum — креатин моногідрат" *)

\* C10 witness: several rules match, the description yields a purpose, and
\* the first rule's label was appended.
C10_Witness ==
    /\ rop = "ua"
    /\ ~HasAnimalFlex(ArgN)
    /\ Cardinality(MatchingRules(ArgBase)) >= 2
    /\ extract_purpose(rdesc) # <<>>
    /\ rout = BaseBrand(ArgBase, ArgV) \o DASH_SEP
              \o UA_TYPE_RULES[Min(MatchingRules(ArgBase))].label

(***************************************************************************)
(* Properties of the driver and the tree transformations (under Spec)      *)
(***************************************************************************)
\* the document has <shop> and <shop> has <offers>
HasOffers(doc) == doc.hasShop /\ Find(doc.shop, "offers") # 0

\* main has written OUT_<l>
Written(l) == files[l] # prev[l]

\* identifier and vendorCode element of every offer, in document order
Keys(offers) == [i \in 1..Len(offers) |-> <<offers[i].id, offers[i].vendorCode>>]

\* C1: at every stage of build and in every written output the offers are
\* those of the fetched document, in its order, each with its id and its
\* vendorCode element unchanged.
C1_IdAndVendorCodeKept ==
    /\ (pc \in {"shop", "offers", "rename"} /\ HasOffers(feed[lang]))
           => (HasOffers(tree) /\ Keys(OffersOf(tree)) = Keys(OffersOf(feed[lang])))
    /\ \A l \in LANGS :
           Written(l) => /\ HasOffers(files[l].doc)
                         /\ Keys(OffersOf(files[l].doc)) = Keys(OffersOf(feed[l]))

\* C1 witness: both outputs are written for a feed of two offers, one of
\* which was renamed and re-categorized.
C1_Witness ==
    /\ pc = "ok"
    /\ HasOffers(feed[lang])
    /\ Len(OffersOf(feed[lang])) >= 2
    /\ \E i \in 1..Len(OffersOf(feed[lang])) :
           /\ OffersOf(files["ua"].doc)[i].name # OffersOf(feed[lang])[i].name
           /\ OffersOf(files["ru"].doc)[i].categoryId # OffersOf(feed[lang])[i].categoryId
           /\ OffersOf(feed[lang])[i].vendorCode.text # strip(OffersOf(feed[lang])[i].vendorCode.text)

\* C2 as stated: an offer whose vendor code is a key of the mapping gets the
\* mapped value whatever it is; every other offer keeps its categoryId.
C2_Original ==
    pc = "rename" =>
        \A i \in 1..Len(OffersOf(feed[lang])) :
            LET o == OffersOf(feed[lang])[i]
                t == OffersOf(tree)[i]
            IN  IF o.vendorCode.present /\ o.vendorCode.text \in DOMAIN category_map
                THEN t.categoryId = El(PyStr(category_map[o.vendorCode.text]))
                ELSE t.categoryId = o.categoryId

\* C2 amended: the key is the vendor code stripped of surrounding whitespace;
\* when it is non-empty and mapped to a truthy value (a non-empty string, a
\* non-zero number) the categoryId is str(value), created if missing; every
\* other offer, one whose key is mapped to "", 0 or null included, keeps its
\* categoryId, absent if it was absent.
C2_MappedWhenTruthy ==
    pc = "rename" =>
        \A i \in 1..Len(OffersOf(feed[lang])) :
            LET o == OffersOf(feed[lang])[i]
                t == OffersOf(tree)[i]
                key == strip(TextOrEmpty(o.vendorCode))
            IN  IF key # <<>> /\ key \in DOMAIN category_map /\ Truthy(category_map[key])
                THEN t.categoryId = El(PyStr(category_map[key]))
                ELSE t.categoryId = o.categoryId

\* C2 witness: one offer got a categoryId element it did not have, another,
\* whose code is mapped to an empty value, kept its own.
C2_Witness ==
    /\ pc = "rename"
    /\ \E i, j \in 1..Len(OffersOf(feed[lang])) :
           /\ ~OffersOf(feed[lang])[i].categoryId.present
           /\ OffersOf(tree)[i].categoryId.present
           /\ TextOrEmpty(OffersOf(feed[lang])[j].vendorCode) \in DOMAIN category_map
           /\ ~Truthy(category_map[TextOrEmpty(OffersOf(feed[lang])[j].vendorCode)])
           /\ OffersOf(tree)[j].categoryId = OffersOf(feed[lang])[j].categoryId

\* every <category> found under shop, collection after collection
RECURSIVE AllCategories(_)
AllCategories(shop) ==
    IF shop = <<>> THEN <<>>
    ELSE (IF Head(shop).tag = "categories" THEN Head(shop).cats ELSE <<>>)
         \o AllCategories(Tail(shop))

\* the <category> a taxonomy record stands for in language lg
TaxonomyCategory(c, lg) ==
    LET p == IF c.parentId.present /\ Truthy(c.parentId.value)
             THEN strip(PyStr(c.parentId.value)) ELSE <<>>
    IN  [id |-> PyStr(c.id), hasParent |-> p # <<>>, parentId |-> p,
         text |-> IF lg = "ua" THEN c.ua ELSE c.ru]

\* C3: after apply_categories the categories under shop are exactly one per
\* taxonomy record (id, parentId iff non-empty, label of the language), and
\* none of the source feed remains.
C3_CategoriesMirrorTaxonomy ==
    pc \in {"offers", "rename"} =>
        AllCategories(tree.shop) =
            [i \in 1..Len(categories_def.categories) |->
                TaxonomyCategory(categories_def.categories[i], lang)]

\* what one offer of the feed becomes, from that offer alone: a missing or
\* blank vendorCode leaves categoryId alone, a missing name leaves the offer
\* unnamed, a missing description or vendor counts as ""
ExpectedOffer(o, lg) ==
    LET key == strip(IF o.vendorCode.present THEN o.vendorCode.text ELSE <<>>)
        cat == IF key # <<>> /\ key \in DOMAIN category_map /\ Truthy(category_map[key])
               THEN El(PyStr(category_map[key])) ELSE o.categoryId
        d   == IF o.description.present THEN o.description.text ELSE <<>>
        v   == IF o.vendor.present THEN o.vendor.text ELSE <<>>
        nm  == IF ~o.name.present THEN Absent
               ELSE IF lg = "ua" THEN El(rename_ua(o.name.text, d, v))
               ELSE El(rename_ru(o.name.text, d, v))
    IN  [o EXCEPT !.categoryId = cat, !.name = nm]

\* the document build(lg) returns for a fetched document with shop and offers
FullBuild(doc, lg) ==
    LET shop == apply_categories(doc.shop, categories_def, lg)
        k    == Find(shop, "offers")
    IN  [doc EXCEPT !.shop =
            [shop EXCEPT ![k].offers =
                [i \in 1..Len(shop[k].offers) |-> ExpectedOffer(shop[k].offers[i], lg)]]]

\* C5: an output file changes only by the write of the complete build of its
\* language (taxonomy injected, every offer categorized and renamed), the
\* other file untouched; when the run fails, the file of the language being
\* built holds what it held before main started.
C5_WriteOnlyAfterFullBuild ==
    /\ [][files' # files =>
            /\ HasOffers(feed[lang])
            /\ files' = [files EXCEPT ![lang] = FileOf(FullBuild(feed[lang], lang))]]_vars
    /\ [](pc = "failed" => (err # ERR_NONE /\ files[lang] = prev[lang]))

\* C5 witness: the ua output was written, then the ru run failed and the ru
\* file still holds the earlier output.
C5_Witness ==
    /\ pc = "failed"
    /\ lang = "ru"
    /\ Written("ua")
    /\ prev["ru"].exists
    /\ files["ru"] = prev["ru"]
    /\ err = ERR_OFFERS
    /\ Len(OffersOf(feed["ua"])) >= 2

\* C7: build never fails because of an offer: a failure is a failed fetch or
\* a missing shop or offers node; and when the rename loop is through, each
\* offer of the document is what it becomes on its own, whatever the other
\* offers lack.
C7_MissingFieldsNotFatal ==
    /\ pc = "failed" =>
           \/ err = ERR_FETCH
           \/ err = ERR_SHOP /\ ~feed[lang].hasShop
           \/ err = ERR_OFFERS /\ ~HasOffers(feed[lang])
    /\ (pc = "rename" /\ idx > Len(OffersOf(tree))) =>
           \A i \in 1..Len(OffersOf(feed[lang])) :
               OffersOf(tree)[i] = ExpectedOffer(OffersOf(feed[lang])[i], lang)

\* C7 witness: both outputs are written for a feed in which one offer has no
\* name, description and vendorCode and another, without vendor, was renamed
\* and categorized.
C7_Witness ==
    /\ pc = "ok"
    /\ \E i, j \in 1..Len(OffersOf(feed[lang])) :
           /\ ~OffersOf(feed[lang])[i].name.present
           /\ ~OffersOf(feed[lang])[i].description.present
           /\ ~OffersOf(feed[lang])[i].vendorCode.present
           /\ ~OffersOf(feed[lang])[j].vendor.present
           /\ OffersOf(files["ua"].doc)[j].name # OffersOf(feed[lang])[j].name
           /\ OffersOf(files["ua"].doc)[j].categoryId # OffersOf(feed[lang])[j].categoryId

\* C8: without <shop>, or without <offers> under it, build ends with the
\* error naming that node; it never reaches the category assignment or the
\* rename loop, and the output files are untouched.
C8_MissingNodeIsExplicitError ==
    /\ ~feed[lang].hasShop => pc \in {"build", "shop", "failed"}
    /\ ~HasOffers(feed[lang]) =>
           (pc \in {"build", "shop", "offers", "failed"} /\ files[lang] = prev[lang])
    /\ (pc = "failed" /\ err # ERR_FETCH /\ ~feed[lang].hasShop) =>
           /\ err = ERR_SHOP
           /\ Contains(err, <<60, 115, 104, 111, 112, 62>> (* "<shop>" *))
           /\ tree = feed[lang]
    /\ (pc = "failed" /\ err # ERR_FETCH /\ feed[lang].hasShop /\ ~HasOffers(feed[lang])) =>
           /\ err = ERR_OFFERS
           /\ Contains(err, <<60, 111, 102, 102, 101, 114, 115, 62>> (* "<offers>" *))
           /\ ~HasOffers(tree)

\* C8 witness: build ended with the offers error after the taxonomy was
\* injected in memory; the earlier output files are still there.
C8_Witness ==
    /\ pc = "failed"
    /\ err = ERR_OFFERS
    /\ tree # feed[lang]
    /\ prev["ua"].exists
    /\ files = prev
    /\ lang = "ua"

====
